---- MODULE Spec2Model ----
(***************************************************************************)
(* Model of the Task Tracker store ("src/Task Tracker Python/main.py"):    *)
(* the in-memory task list of a TaskTracker, the store file tasks.json and *)
(* its backup tasks.bak, and the load / backup / save protocol between     *)
(* them.  File contents are sequences of characters; json.dump and         *)
(* json.load are modelled by a serializer and a recursive-descent parser   *)
(* over those characters.                                                  *)
(***************************************************************************)
EXTENDS Integers, Sequences, FiniteSets, TLC

(***************************************************************************)
(* Bounds of the model.                                                    *)
(***************************************************************************)
MaxTasks == 2          \* longest task list the model grows by add_task
MaxOps == 2            \* operations performed on one TaskTracker
MaxRuns == 2           \* program invocations in one behaviour

(***************************************************************************)
(* Python values, as json.load produces them and json.dump consumes them.  *)
(* Every value is a record of the same shape; t is the Python type.        *)
(***************************************************************************)
PyStr(s) == [t |-> "str", s |-> s, b |-> FALSE, n |-> 0, keys |-> <<>>, items |-> <<>>]
PyBool(b) == [t |-> "bool", s |-> <<>>, b |-> b, n |-> 0, keys |-> <<>>, items |-> <<>>]
PyInt(n) == [t |-> "int", s |-> <<>>, b |-> FALSE, n |-> n, keys |-> <<>>, items |-> <<>>]
PyNone == [t |-> "None", s |-> <<>>, b |-> FALSE, n |-> 0, keys |-> <<>>, items |-> <<>>]
PyList(items) == [t |-> "list", s |-> <<>>, b |-> FALSE, n |-> 0, keys |-> <<>>, items |-> items]
PyDict(keys, items) == [t |-> "dict", s |-> <<>>, b |-> FALSE, n |-> 0, keys |-> keys, items |-> items]

\* The two keys of a task's dictionary, as character sequences.
DESCRIPTION == <<"d", "e", "s", "c", "r", "i", "p", "t", "i", "o", "n">>
COMPLETED == <<"c", "o", "m", "p", "l", "e", "t", "e", "d">>

\* A byte that is not valid in the text encoding open(..., "r") decodes with.
BADBYTE == "<0xff>"

\* str.strip() whitespace and the whitespace json.load skips.
Whitespace == {" ", "\t", "\n", "\r"}
Digits == <<"0", "1", "2", "3", "4", "5", "6", "7", "8", "9">>
IsDigit(c) == \E d \in 1..10 : Digits[d] = c
DigitValue(c) == (CHOOSE d \in 1..10 : Digits[d] = c) - 1

(***************************************************************************)
(* str.strip(): drop leading and trailing whitespace.                      *)
(***************************************************************************)
RECURSIVE lstrip(_)
lstrip(s) ==
    IF s # <<>> /\ Head(s) \in Whitespace THEN lstrip(Tail(s)) ELSE s

RECURSIVE rstrip(_)
rstrip(s) ==
    IF s # <<>> /\ s[Len(s)] \in Whitespace
    THEN rstrip(SubSeq(s, 1, Len(s) - 1))
    ELSE s

strip(s) == rstrip(lstrip(s))

(***************************************************************************)
(* class Task                                                              *)
(***************************************************************************)
Task(description, completed) ==
    [description |-> description, completed |-> completed]

to_dict(task) ==
    PyDict(<<DESCRIPTION, COMPLETED>>, <<task.description, task.completed>>)

HasKey(d, k) == \E i \in 1..Len(d.keys) : d.keys[i] = k
GetItem(d, k) == d.items[CHOOSE i \in 1..Len(d.keys) : d.keys[i] = k]

\* from_dict reading data["completed"]: a missing key raises KeyError.
from_dict_requires_completed(data) ==
    IF data.t # "dict"
    THEN [err |-> "TypeError", task |-> Task(PyNone, PyNone)]
    ELSE IF ~HasKey(data, DESCRIPTION) \/ ~HasKey(data, COMPLETED)
    THEN [err |-> "KeyError", task |-> Task(PyNone, PyNone)]
    ELSE [err |-> "none",
          task |-> Task(GetItem(data, DESCRIPTION), GetItem(data, COMPLETED))]

\* from_dict(data): data["description"] raises TypeError on a value that is
\* not a dict and KeyError on a dict without the key; "completed" defaults
\* to False.  No field is type-checked.
from_dict(data) ==
    IF data.t # "dict"
    THEN [err |-> "TypeError", task |-> Task(PyNone, PyNone)]
    ELSE IF ~HasKey(data, DESCRIPTION)
    THEN [err |-> "KeyError", task |-> Task(PyNone, PyNone)]
    ELSE [err |-> "none",
          task |-> Task(GetItem(data, DESCRIPTION),
                        IF HasKey(data, COMPLETED)
                        THEN GetItem(data, COMPLETED)
                        ELSE PyBool(FALSE))]

(***************************************************************************)
(* json.dump(obj, f, indent=4): the characters written.                    *)
(***************************************************************************)
RECURSIVE Spaces(_)
Spaces(n) == IF n = 0 THEN <<>> ELSE <<" ">> \o Spaces(n - 1)

Newline(level) == <<"\n">> \o Spaces(4 * level)

\* An encoder that writes every character as it is.
EscapeChar_raw(c) == <<c>>

EscapeChar(c) ==
    CASE c = "\"" -> <<"\\", "\"">>
      [] c = "\\" -> <<"\\", "\\">>
      [] c = "\n" -> <<"\\", "n">>
      [] c = "\t" -> <<"\\", "t">>
      [] c = "\r" -> <<"\\", "r">>
      [] OTHER -> <<c>>

RECURSIVE Escape(_)
Escape(s) == IF s = <<>> THEN <<>> ELSE EscapeChar(Head(s)) \o Escape(Tail(s))

RECURSIVE DumpInt(_)
DumpInt(n) ==
    IF n < 10 THEN <<Digits[n + 1]>>
    ELSE DumpInt(n \div 10) \o <<Digits[(n % 10) + 1]>>

RECURSIVE DumpValue(_, _)
RECURSIVE DumpItems(_, _, _, _)
\* The elements of a list or dict from position i on, separated by "," and
\* a line break at the given level.
DumpItems(v, i, level, isDict) ==
    IF i > Len(v.items) THEN <<>>
    ELSE (IF isDict
          THEN <<"\"">> \o Escape(v.keys[i]) \o <<"\"", ":", " ">>
          ELSE <<>>)
         \o DumpValue(v.items[i], level)
         \o (IF i < Len(v.items) THEN <<",">> \o Newline(level) ELSE <<>>)
         \o DumpItems(v, i + 1, level, isDict)

DumpValue(v, level) ==
    CASE v.t = "str" -> <<"\"">> \o Escape(v.s) \o <<"\"">>
      [] v.t = "bool" -> IF v.b THEN <<"t", "r", "u", "e">>
                                ELSE <<"f", "a", "l", "s", "e">>
      [] v.t = "None" -> <<"n", "u", "l", "l">>
      [] v.t = "int" -> DumpInt(v.n)
      [] v.t = "list" ->
            IF v.items = <<>> THEN <<"[", "]">>
            ELSE <<"[">> \o Newline(level + 1)
                 \o DumpItems(v, 1, level + 1, FALSE)
                 \o Newline(level) \o <<"]">>
      [] v.t = "dict" ->
            IF v.items = <<>> THEN <<"{", "}">>
            ELSE <<"{">> \o Newline(level + 1)
                 \o DumpItems(v, 1, level + 1, TRUE)
                 \o Newline(level) \o <<"}">>

\* json.dump([task.to_dict() for task in self.tasks], f, indent=4)
Dumps(tasks) ==
    DumpValue(PyList([i \in 1..Len(tasks) |-> to_dict(tasks[i])]), 0)

(***************************************************************************)
(* json.load(f): a recursive-descent parser of the characters read.       *)
(* A result is [ok, v, i]: success, the value, the next position.         *)
(***************************************************************************)
ParseFail == [ok |-> FALSE, v |-> PyNone, i |-> 0]
ParseOk(v, i) == [ok |-> TRUE, v |-> v, i |-> i]

RECURSIVE SkipWs(_, _)
SkipWs(s, i) ==
    IF i <= Len(s) /\ s[i] \in Whitespace THEN SkipWs(s, i + 1) ELSE i

StartsWith(s, i, w) ==
    /\ i + Len(w) - 1 <= Len(s)
    /\ SubSeq(s, i, i + Len(w) - 1) = w

\* The body of a string literal from position i (after the opening quote).
RECURSIVE ParseString(_, _, _)
ParseString(s, i, acc) ==
    IF i > Len(s) THEN ParseFail
    ELSE IF s[i] = "\"" THEN ParseOk(PyStr(acc), i + 1)
    ELSE IF s[i] = "\\" THEN
        IF i + 1 > Len(s) THEN ParseFail
        ELSE IF s[i + 1] \in {"\"", "\\", "/"}
        THEN ParseString(s, i + 2, Append(acc, s[i + 1]))
        ELSE IF s[i + 1] = "n" THEN ParseString(s, i + 2, Append(acc, "\n"))
        ELSE IF s[i + 1] = "t" THEN ParseString(s, i + 2, Append(acc, "\t"))
        ELSE IF s[i + 1] = "r" THEN ParseString(s, i + 2, Append(acc, "\r"))
        ELSE ParseFail
    ELSE IF s[i] \in {"\n", "\t", "\r"} THEN ParseFail
    ELSE ParseString(s, i + 1, Append(acc, s[i]))

\* The digits of an integer from position i, n the value read so far.
RECURSIVE ParseDigits(_, _, _)
ParseDigits(s, i, n) ==
    IF i <= Len(s) /\ IsDigit(s[i])
    THEN ParseDigits(s, i + 1, 10 * n + DigitValue(s[i]))
    ELSE ParseOk(PyInt(n), i)

\* dict assignment d[k] = v: a repeated key keeps its place, takes the value.
DictSet(d, k, v) ==
    IF HasKey(d, k)
    THEN LET j == CHOOSE j \in 1..Len(d.keys) : d.keys[j] = k
         IN PyDict(d.keys, [d.items EXCEPT ![j] = v])
    ELSE PyDict(Append(d.keys, k), Append(d.items, v))

RECURSIVE ParseValue(_, _)
RECURSIVE ParseArray(_, _, _)
RECURSIVE ParseObject(_, _, _)

\* The elements of an array; i is at the first character of an element.
ParseArray(s, i, acc) ==
    LET r == ParseValue(s, i)
        j == SkipWs(s, r.i)
    IN IF ~r.ok \/ j > Len(s) THEN ParseFail
       ELSE IF s[j] = "]" THEN ParseOk(PyList(Append(acc, r.v)), j + 1)
       ELSE IF s[j] = "," THEN ParseArray(s, SkipWs(s, j + 1), Append(acc, r.v))
       ELSE ParseFail

\* The members of an object; i is at the opening quote of a key.
ParseObject(s, i, acc) ==
    IF i > Len(s) \/ s[i] # "\"" THEN ParseFail
    ELSE LET k == ParseString(s, i + 1, <<>>)
             c == SkipWs(s, k.i)
         IN IF ~k.ok \/ c > Len(s) \/ s[c] # ":" THEN ParseFail
            ELSE LET r == ParseValue(s, SkipWs(s, c + 1))
                     j == SkipWs(s, r.i)
                 IN IF ~r.ok \/ j > Len(s) THEN ParseFail
                    ELSE IF s[j] = "}"
                    THEN ParseOk(DictSet(acc, k.v.s, r.v), j + 1)
                    ELSE IF s[j] = ","
                    THEN ParseObject(s, SkipWs(s, j + 1), DictSet(acc, k.v.s, r.v))
                    ELSE ParseFail

ParseValue(s, i) ==
    IF i > Len(s) THEN ParseFail
    ELSE IF s[i] = "\"" THEN ParseString(s, i + 1, <<>>)
    ELSE IF s[i] = "[" THEN
        LET j == SkipWs(s, i + 1)
        IN IF j <= Len(s) /\ s[j] = "]" THEN ParseOk(PyList(<<>>), j + 1)
           ELSE ParseArray(s, j, <<>>)
    ELSE IF s[i] = "{" THEN
        LET j == SkipWs(s, i + 1)
        IN IF j <= Len(s) /\ s[j] = "}" THEN ParseOk(PyDict(<<>>, <<>>), j + 1)
           ELSE ParseObject(s, j, PyDict(<<>>, <<>>))
    ELSE IF StartsWith(s, i, <<"t", "r", "u", "e">>) THEN ParseOk(PyBool(TRUE), i + 4)
    ELSE IF StartsWith(s, i, <<"f", "a", "l", "s", "e">>) THEN ParseOk(PyBool(FALSE), i + 5)
    ELSE IF StartsWith(s, i, <<"n", "u", "l", "l">>) THEN ParseOk(PyNone, i + 4)
    ELSE IF s[i] = "0" THEN ParseOk(PyInt(0), i + 1)
    ELSE IF IsDigit(s[i]) THEN ParseDigits(s, i, 0)
    ELSE ParseFail

\* json.load on the characters of the file: one value, whitespace around it,
\* nothing after it.  err is "none", or the exception raised: reading a file
\* with an undecodable byte raises UnicodeDecodeError before any parsing.
Loads(content) ==
    IF \E i \in 1..Len(content) : content[i] = BADBYTE
    THEN [err |-> "UnicodeDecodeError", v |-> PyNone]
    ELSE LET r == ParseValue(content, SkipWs(content, 1))
         IN IF r.ok /\ SkipWs(content, r.i) > Len(content)
            THEN [err |-> "none", v |-> r.v]
            ELSE [err |-> "JSONDecodeError", v |-> PyNone]

(***************************************************************************)
(* The file system seen by the program: the store file tasks.json, the     *)
(* backup tasks.bak, and whether the directory accepts writes.             *)
(***************************************************************************)
Absent == [kind |-> "absent", content |-> <<>>]
Directory == [kind |-> "dir", content |-> <<>>]
RegularFile(content) == [kind |-> "file", content |-> content]

\* disk = "ok": open and write succeed; "readonly": open(..., "w") raises
\* OSError; "full": open succeeds and truncates, the write raises OSError.
DiskStates == {"ok", "readonly", "full"}

\* How many characters of a failed write reach the file.
PartialLengths(data) == {0, Len(data) \div 2}

(***************************************************************************)
(* The steps of a write through open(self.tasks_file, "w"): the open       *)
(* creates the file or truncates it to nothing; the data, buffered by the  *)
(* file object, is written from position 0 when the file is closed (the    *)
(* snapshots of the model are far below the buffer size), over whatever    *)
(* the file holds by then.                                                 *)
(***************************************************************************)
\* open(..., "r+"): an open that keeps the content.
OpenForWrite_keep(f) == RegularFile(f.content)

OpenForWrite(f) == RegularFile(<<>>)

\* open(..., "a"): a write that goes to the end of the file.
Overwrite_append(content, data) == content \o data

Overwrite(content, data) ==
    data \o SubSeq(content, Len(data) + 1, Len(content))

(***************************************************************************)
(* TaskTracker.save_tasks.  hasTasks is FALSE while self.tasks is not yet  *)
(* assigned (the call made from load_tasks inside __init__): the file is   *)
(* opened, hence created or truncated, before the list comprehension       *)
(* reads self.tasks and raises AttributeError, caught by the last except.  *)
(* The result is the set of possible outcomes.                             *)
(***************************************************************************)
\* save_tasks with "except ...: pass": a failure is swallowed unreported.
save_tasks_silent(hasTasks, t, f, dk) ==
    IF f.kind = "dir" \/ dk = "readonly"
    THEN {[file |-> f, msgs |-> <<>>, wrote |-> "none"]}
    ELSE IF ~hasTasks
    THEN {[file |-> OpenForWrite(f), msgs |-> <<>>, wrote |-> "partial"]}
    ELSE IF dk = "full"
    THEN {[file |-> RegularFile(Overwrite(OpenForWrite(f).content,
                                          SubSeq(Dumps(t), 1, k))),
           msgs |-> <<>>, wrote |-> "partial"] :
            k \in PartialLengths(Dumps(t))}
    ELSE {[file |-> RegularFile(Overwrite(OpenForWrite(f).content, Dumps(t))),
           msgs |-> <<>>, wrote |-> "full"]}

save_tasks(hasTasks, t, f, dk) ==
    IF f.kind = "dir" \/ dk = "readonly"
    THEN {[file |-> f, msgs |-> <<"Error saving tasks">>, wrote |-> "none"]}
    ELSE IF ~hasTasks
    THEN {[file |-> OpenForWrite(f),
           msgs |-> <<"Unexpected error saving tasks">>, wrote |-> "partial"]}
    ELSE IF dk = "full"
    THEN {[file |-> RegularFile(Overwrite(OpenForWrite(f).content,
                                          SubSeq(Dumps(t), 1, k))),
           msgs |-> <<"Error saving tasks">>, wrote |-> "partial"] :
            k \in PartialLengths(Dumps(t))}
    ELSE {[file |-> RegularFile(Overwrite(OpenForWrite(f).content, Dumps(t))),
           msgs |-> <<>>, wrote |-> "full"]}

(***************************************************************************)
(* TaskTracker.create_backup: shutil.copy2 of the store file to tasks.bak; *)
(* a failed copy is reported and swallowed.                                *)
(***************************************************************************)
create_backup(f, b, dk) ==
    CASE dk = "ok" ->
            [bak |-> RegularFile(f.content), msgs |-> <<"Created backup">>]
      [] dk = "readonly" ->
            [bak |-> b, msgs |-> <<"Failed to create backup">>]
      [] dk = "full" ->
            [bak |-> RegularFile(<<>>), msgs |-> <<"Failed to create backup">>]

(***************************************************************************)
(* TaskTracker.load_tasks, called from __init__.  The result is the set of *)
(* possible outcomes; raised names an exception that leaves the            *)
(* constructor.                                                            *)
(***************************************************************************)
LoadOutcome(raised, t, f, b, msgs, saves, wrote) ==
    [raised |-> raised, tasks |-> t, file |-> f, bak |-> b, msgs |-> msgs,
     saves |-> saves, wrote |-> wrote]

\* [Task.from_dict(item) for item in data]: the first failing element
\* raises and no list is built.
DecodeAll(data) ==
    LET r == [i \in 1..Len(data.items) |-> from_dict(data.items[i])]
        bad == {i \in 1..Len(data.items) : r[i].err # "none"}
    IN IF bad = {}
       THEN [err |-> "none", tasks |-> [i \in 1..Len(data.items) |-> r[i].task]]
       ELSE [err |-> r[CHOOSE i \in bad : \A j \in bad : i <= j].err,
             tasks |-> <<>>]

load_tasks(f, b, dk) ==
    IF f.kind = "absent"
    THEN {LoadOutcome("none", <<>>, s.file, b, s.msgs, 1, s.wrote) :
            s \in save_tasks(FALSE, <<>>, f, dk)}
    ELSE IF f.kind # "file"
    THEN {LoadOutcome("none", <<>>, s.file, b,
                      <<"Warning: exists but is not a file">> \o s.msgs,
                      1, s.wrote) :
            s \in save_tasks(FALSE, <<>>, f, dk)}
    ELSE LET data == Loads(f.content)
             bk == create_backup(f, b, dk)
         IN IF data.err = "UnicodeDecodeError"
            THEN {LoadOutcome("UnicodeDecodeError", <<>>, f, b, <<>>, 0, "none")}
            ELSE IF data.err = "JSONDecodeError"
            THEN {LoadOutcome("none", <<>>, f, bk.bak,
                              <<"Error loading tasks file">> \o bk.msgs, 0, "none")}
            ELSE IF data.v.t = "list"
            THEN LET d == DecodeAll(data.v)
                 IN IF d.err = "none"
                    THEN {LoadOutcome("none", d.tasks, f, b, <<>>, 0, "none")}
                    ELSE {LoadOutcome("none", <<>>, f, bk.bak,
                                      <<"Error loading tasks file">> \o bk.msgs,
                                      0, "none")}
            ELSE {LoadOutcome("none", <<>>, f, bk.bak,
                              <<"Warning: Invalid format in tasks file">> \o bk.msgs,
                              0, "none")}

(***************************************************************************)
(* The operations of TaskTracker.  Each takes the task list, the store     *)
(* file and the disk state and gives the set of possible outcomes          *)
(* [tasks, file, msgs, saves, wrote, shown, raised].                       *)
(***************************************************************************)
OpOutcome(t, f, msgs, saves, wrote, shown) ==
    [tasks |-> t, file |-> f, msgs |-> msgs, saves |-> saves, wrote |-> wrote,
     shown |-> shown, raised |-> "none"]

\* add_task storing the description as typed, without description.strip().
add_task_unstripped(t, f, dk, description) ==
    IF strip(description) = <<>>
    THEN {OpOutcome(t, f, <<"Error: Task description cannot be empty.">>,
                    0, "none", <<>>)}
    ELSE LET t2 == Append(t, Task(PyStr(description), PyBool(FALSE)))
         IN {OpOutcome(t2, s.file, s.msgs \o <<"Task added">>, 1, s.wrote, <<>>) :
                s \in save_tasks(TRUE, t2, f, dk)}

\* add_task testing "if not description" instead of the stripped text.
add_task_blank_accepted(t, f, dk, description) ==
    IF description = <<>>
    THEN {OpOutcome(t, f, <<"Error: Task description cannot be empty.">>,
                    0, "none", <<>>)}
    ELSE LET t2 == Append(t, Task(PyStr(strip(description)), PyBool(FALSE)))
         IN {OpOutcome(t2, s.file, s.msgs \o <<"Task added">>, 1, s.wrote, <<>>) :
                s \in save_tasks(TRUE, t2, f, dk)}

add_task(t, f, dk, description) ==
    IF strip(description) = <<>>
    THEN {OpOutcome(t, f, <<"Error: Task description cannot be empty.">>,
                    0, "none", <<>>)}
    ELSE LET task == Task(PyStr(strip(description)), PyBool(FALSE))
             t2 == Append(t, task)
         IN {OpOutcome(t2, s.file, s.msgs \o <<"Task added">>, 1, s.wrote, <<>>) :
                s \in save_tasks(TRUE, t2, f, dk)}

\* enumerate(self.tasks, 1): the tasks paired with their 1-based position.
Enumerate(t) == [i \in 1..Len(t) |-> [index |-> i, task |-> t[i]]]

\* list_tasks ending with self.save_tasks().
list_tasks_saving(t, f, dk) ==
    IF t = <<>>
    THEN {OpOutcome(t, f, <<"No tasks found.">>, 0, "none", <<>>)}
    ELSE {OpOutcome(t, s.file, <<"Your Tasks:">> \o s.msgs, 1, s.wrote,
                    Enumerate(t)) :
            s \in save_tasks(TRUE, t, f, dk)}

list_tasks(t, f, dk) ==
    IF t = <<>>
    THEN {OpOutcome(t, f, <<"No tasks found.">>, 0, "none", <<>>)}
    ELSE {OpOutcome(t, f, <<"Your Tasks:">>, 0, "none", Enumerate(t))}

\* complete_task without the test task_index < 1: Python's tasks[k - 1]
\* then counts a position below 1 from the end of the list.
complete_task_no_lower_bound(t, f, dk, task_index) ==
    IF t = <<>>
    THEN {OpOutcome(t, f, <<"No tasks found.">>, 0, "none", <<>>)}
    ELSE IF task_index > Len(t)
    THEN {OpOutcome(t, f, <<"Error: Invalid task index.">>, 0, "none", <<>>)}
    ELSE IF task_index + Len(t) < 1
    THEN {[OpOutcome(t, f, <<>>, 0, "none", <<>>) EXCEPT !.raised = "IndexError"]}
    ELSE LET k == IF task_index < 1 THEN task_index + Len(t) ELSE task_index
             t2 == [t EXCEPT ![k].completed = PyBool(TRUE)]
         IN {OpOutcome(t2, s.file, s.msgs \o <<"Task marked as completed">>,
                       1, s.wrote, <<>>) :
                s \in save_tasks(TRUE, t2, f, dk)}

\* complete_task flipping the flag instead of setting it.
complete_task_toggle(t, f, dk, task_index) ==
    IF t = <<>>
    THEN {OpOutcome(t, f, <<"No tasks found.">>, 0, "none", <<>>)}
    ELSE IF task_index < 1 \/ task_index > Len(t)
    THEN {OpOutcome(t, f, <<"Error: Invalid task index.">>, 0, "none", <<>>)}
    ELSE LET t2 == [t EXCEPT ![task_index].completed =
                        IF @ = PyBool(TRUE) THEN PyBool(FALSE) ELSE PyBool(TRUE)]
         IN {OpOutcome(t2, s.file, s.msgs \o <<"Task marked as completed">>,
                       1, s.wrote, <<>>) :
                s \in save_tasks(TRUE, t2, f, dk)}

complete_task(t, f, dk, task_index) ==
    IF t = <<>>
    THEN {OpOutcome(t, f, <<"No tasks found.">>, 0, "none", <<>>)}
    ELSE IF task_index < 1 \/ task_index > Len(t)
    THEN {OpOutcome(t, f, <<"Error: Invalid task index.">>, 0, "none", <<>>)}
    ELSE LET t2 == [t EXCEPT ![task_index].completed = PyBool(TRUE)]
         IN {OpOutcome(t2, s.file, s.msgs \o <<"Task marked as completed">>,
                       1, s.wrote, <<>>) :
                s \in save_tasks(TRUE, t2, f, dk)}

\* list.pop(): the last element leaves, whatever the position asked for.
Pop_last(t, k) == SubSeq(t, 1, Len(t) - 1)

\* list.pop(k - 1) for a 1-based position k.
Pop(t, k) == SubSeq(t, 1, k - 1) \o SubSeq(t, k + 1, Len(t))

\* remove_task saving before the pop: the file receives the list as it was.
remove_task_save_first(t, f, dk, task_index) ==
    IF t = <<>>
    THEN {OpOutcome(t, f, <<"No tasks found.">>, 0, "none", <<>>)}
    ELSE IF task_index < 1 \/ task_index > Len(t)
    THEN {OpOutcome(t, f, <<"Error: Invalid task index.">>, 0, "none", <<>>)}
    ELSE LET t2 == Pop(t, task_index)
         IN {OpOutcome(t2, s.file, s.msgs \o <<"Task removed">>, 1, s.wrote, <<>>) :
                s \in save_tasks(TRUE, t, f, dk)}

remove_task(t, f, dk, task_index) ==
    IF t = <<>>
    THEN {OpOutcome(t, f, <<"No tasks found.">>, 0, "none", <<>>)}
    ELSE IF task_index < 1 \/ task_index > Len(t)
    THEN {OpOutcome(t, f, <<"Error: Invalid task index.">>, 0, "none", <<>>)}
    ELSE LET t2 == Pop(t, task_index)
         IN {OpOutcome(t2, s.file, s.msgs \o <<"Task removed">>, 1, s.wrote, <<>>) :
                s \in save_tasks(TRUE, t2, f, dk)}

\* "if not task.completed": Python truthiness of the stored value.
Truthy(v) ==
    CASE v.t = "bool" -> v.b
      [] v.t = "None" -> FALSE
      [] v.t = "int" -> v.n # 0
      [] v.t = "str" -> v.s # <<>>
      [] OTHER -> v.items # <<>>

RECURSIVE SelectNotCompleted(_)
SelectNotCompleted(rows) ==
    IF rows = <<>> THEN <<>>
    ELSE (IF ~Truthy(Head(rows).task.completed) THEN <<Head(rows)>> ELSE <<>>)
         \o SelectNotCompleted(Tail(rows))

\* in_progress_tasks numbering the rows it prints 1, 2, ... instead of
\* keeping each task's position in the full list.
in_progress_tasks_renumbered(t, f, dk) ==
    IF t = <<>>
    THEN {OpOutcome(t, f, <<"No tasks found.">>, 0, "none", <<>>)}
    ELSE LET rows == SelectNotCompleted(Enumerate(t))
         IN {OpOutcome(t, f, <<"In Progress Tasks:">>, 0, "none",
                       [k \in 1..Len(rows) |-> [index |-> k, task |-> rows[k].task]])}

in_progress_tasks(t, f, dk) ==
    IF t = <<>>
    THEN {OpOutcome(t, f, <<"No tasks found.">>, 0, "none", <<>>)}
    ELSE {OpOutcome(t, f, <<"In Progress Tasks:">>, 0, "none",
                    SelectNotCompleted(Enumerate(t)))}

(***************************************************************************)
(* State.                                                                  *)
(*   file, bak, disk  the store file, the backup file, the disk state      *)
(*   pc, tasks        the running program: "none" (not started), "ready"   *)
(*                    (a TaskTracker was constructed), "failed" (the       *)
(*                    constructor raised); tasks is self.tasks             *)
(*   ops, runs        operations done on this TaskTracker, programs run    *)
(*   durable          history: the list last written in full by save_tasks *)
(*   last             history: the last handler run, its inputs, the state *)
(*                    before it and what it reported                       *)
(*   procs, rpc, rtasks, rbuf, rlog                                        *)
(*                    two programs racing on the store file, their saves   *)
(*                    split into the steps of the operating system         *)
(*   ev, line, fpc    the event formatter: the event at hand, the line     *)
(*                    format_event made of it, and the loop's position     *)
(***************************************************************************)
VARIABLES file, bak, disk, pc, tasks, ops, runs, durable, last,
          procs, rpc, rtasks, rbuf, rlog, ev, line, fpc

storeVars == <<file, bak, disk>>
mainVars == <<pc, tasks, ops, runs, durable, last>>
raceVars == <<procs, rpc, rtasks, rbuf, rlog>>
fmtVars == <<ev, line, fpc>>
vars == <<file, bak, disk, pc, tasks, ops, runs, durable, last,
          procs, rpc, rtasks, rbuf, rlog, ev, line, fpc>>

\* Inputs of the operations.
Descriptions == {<<>>, <<" ", "\t">>, <<"a">>, <<" ", "b", "\"", " ">>}
Indices == (-1)..(MaxTasks + 1)

\* Store files found at start-up.
TaskA == Task(PyStr(<<"a">>), PyBool(FALSE))
TaskB == Task(PyStr(<<"b", "\"">>), PyBool(TRUE))
TaskC == Task(PyStr(<<"c">>), PyBool(FALSE))
Compact ==
    <<"[", "{", "\"">> \o COMPLETED \o <<"\"", ":", "t", "r", "u", "e", ",", "\"">>
    \o DESCRIPTION \o <<"\"", ":", "\"", "a", "\"", "}", "]", "\n">>
InitContents ==
    { <<>>,                                                  \* zero bytes
      <<BADBYTE>>,                                           \* not text
      Dumps(<<>>),                                           \* []
      Dumps(<<TaskA>>),
      Dumps(<<TaskB, TaskA>>),
      Dumps(<<TaskA, TaskB, TaskC>>),
      Compact,                                               \* hand-written
      SubSeq(Dumps(<<TaskA>>), 1, 40),                       \* cut short
      DumpValue(PyStr(<<"n", "o">>), 0),                     \* a JSON string
      DumpValue(to_dict(TaskA), 0),                          \* a JSON object
      DumpValue(PyList(<<to_dict(TaskB),                     \* no completed
                         PyDict(<<DESCRIPTION>>, <<PyStr(<<"a">>)>>)>>), 0),
      DumpValue(PyList(<<PyDict(<<COMPLETED>>, <<PyBool(TRUE)>>)>>), 0),
      DumpValue(PyList(<<to_dict(TaskA), PyInt(5)>>), 0),    \* element not an object
      Dumps(<<Task(PyInt(7), PyBool(FALSE))>>),              \* numeric description
      Dumps(<<Task(PyStr(<<"a">>), PyStr(<<"x">>)),          \* string, null completed
              Task(PyStr(<<"c">>), PyNone)>>),
      Dumps(<<Task(PyStr(<<" ">>), PyBool(FALSE))>>) }       \* blank description
InitFiles == {Absent, Directory} \cup {RegularFile(c) : c \in InitContents}

NoPre == [tasks |-> <<>>, file |-> Absent, bak |-> Absent]
NoLast ==
    [op |-> "none", desc |-> <<>>, idx |-> 0, pre |-> NoPre, msgs |-> <<>>,
     saves |-> 0, wrote |-> "none", raised |-> "none", shown |-> <<>>]
NoDurable == [valid |-> FALSE, tasks |-> <<>>]

MainIdle ==
    /\ pc = "none" /\ tasks = <<>> /\ ops = 0 /\ runs = 0
    /\ durable = NoDurable /\ last = NoLast
RaceIdle ==
    /\ procs = {} /\ rpc = [p \in 1..2 |-> "off"]
    /\ rtasks = [p \in 1..2 |-> <<>>] /\ rbuf = [p \in 1..2 |-> <<>>]
    /\ rlog = [finished |-> <<>>, overlap |-> FALSE, prev |-> [p \in 1..2 |-> <<>>]]

NoEvent ==
    [type |-> "<none>", repo |-> <<>>, action |-> <<>>, issue_number |-> 0,
     number |-> 0]
FmtIdle == ev = NoEvent /\ line = <<>> /\ fpc = "off"

Init ==
    /\ file \in InitFiles
    /\ bak \in {Absent, RegularFile(<<"o", "l", "d">>)}
    /\ disk \in DiskStates
    /\ MainIdle
    /\ RaceIdle
    /\ FmtIdle

\* The list the store file holds after a save: the one written in full,
\* none after a truncated or partial write, the earlier one if the open failed.
Durable(wrote, t) ==
    CASE wrote = "full" -> [valid |-> TRUE, tasks |-> t]
      [] wrote = "partial" -> NoDurable
      [] OTHER -> durable

Pre == [tasks |-> tasks, file |-> file, bak |-> bak]

\* main(): task_tracker = TaskTracker(); an exception is reported as a
\* critical error and the program returns without an operation.
Construct ==
    /\ pc = "none"
    /\ runs < MaxRuns
    /\ \E o \in load_tasks(file, bak, disk) :
        /\ pc' = IF o.raised = "none" THEN "ready" ELSE "failed"
        /\ tasks' = o.tasks
        /\ file' = o.file
        /\ bak' = o.bak
        /\ durable' = Durable(o.wrote, <<>>)
        /\ last' = [NoLast EXCEPT !.op = "init", !.pre = Pre, !.msgs = o.msgs,
                                  !.saves = o.saves, !.wrote = o.wrote,
                                  !.raised = o.raised]
    /\ runs' = runs + 1
    /\ ops' = 0
    /\ UNCHANGED <<disk, raceVars, fmtVars>>

\* The effect of an operation's outcome o on the state.
Apply(op, desc, idx, o) ==
    /\ Len(o.tasks) <= MaxTasks \/ Len(o.tasks) <= Len(tasks)
    /\ tasks' = o.tasks
    /\ file' = o.file
    /\ durable' = Durable(o.wrote, o.tasks)
    /\ last' = [NoLast EXCEPT !.op = op, !.desc = desc, !.idx = idx, !.pre = Pre,
                              !.msgs = o.msgs, !.saves = o.saves,
                              !.wrote = o.wrote, !.shown = o.shown,
                              !.raised = o.raised]
    /\ ops' = ops + 1
    /\ UNCHANGED <<bak, disk, pc, runs, raceVars, fmtVars>>

CanOperate == pc = "ready" /\ ops < MaxOps

AddTask ==
    /\ CanOperate
    /\ \E d \in Descriptions : \E o \in add_task(tasks, file, disk, d) :
        Apply("add", d, 0, o)

ListTasks ==
    /\ CanOperate
    /\ \E o \in list_tasks(tasks, file, disk) : Apply("list", <<>>, 0, o)

CompleteTask ==
    /\ CanOperate
    /\ \E i \in Indices : \E o \in complete_task(tasks, file, disk, i) :
        Apply("complete", <<>>, i, o)

RemoveTask ==
    /\ CanOperate
    /\ \E i \in Indices : \E o \in remove_task(tasks, file, disk, i) :
        Apply("remove", <<>>, i, o)

InProgressTasks ==
    /\ CanOperate
    /\ \E o \in in_progress_tasks(tasks, file, disk) :
        Apply("in_progress", <<>>, 0, o)

\* The program returns; its memory is gone, the files stay.
Exit ==
    /\ pc \in {"ready", "failed"}
    /\ pc' = "none"
    /\ tasks' = <<>>
    /\ last' = [NoLast EXCEPT !.op = "exit"]
    /\ UNCHANGED <<file, bak, disk, ops, runs, durable, raceVars, fmtVars>>

Next ==
    \/ Construct
    \/ AddTask
    \/ ListTasks
    \/ CompleteTask
    \/ RemoveTask
    \/ InProgressTasks
    \/ Exit

Spec == Init /\ [][Next]_vars

(***************************************************************************)
(* The program on its own: no store file and no backup at the start, a     *)
(* disk that takes every write, and nothing but the program touching the   *)
(* files.                                                                  *)
(***************************************************************************)
FreshInit ==
    /\ file = Absent
    /\ bak = Absent
    /\ disk = "ok"
    /\ MainIdle
    /\ RaceIdle
    /\ FmtIdle

FreshSpec == FreshInit /\ [][Next]_vars

(***************************************************************************)
(* Two programs on the same store file.  Each runs main() once: it         *)
(* constructs a TaskTracker (load_tasks), performs one mutating operation  *)
(* and exits.  The save of the operation is split into the steps the       *)
(* operating system sees: the open, which truncates, and the write at      *)
(* close.  Nothing in the code orders the steps of the two programs.       *)
(*   rpc[p]   "start", "ready", then "opened" (inside save_tasks, file     *)
(*            open), and one of "saved", "write_failed", "open_failed",    *)
(*            "rejected", "crashed", "init_failed"                         *)
(*   rbuf[p]  the data buffered in the open file object                    *)
(*   rlog     history: the programs in the order their saves finished,     *)
(*            whether a save was opened while another was open, and the    *)
(*            content each save found when it opened the file              *)
(***************************************************************************)
RaceContents == {Dumps(<<>>), Dumps(<<TaskA>>), Dumps(<<TaskB, TaskA>>)}

RaceInit ==
    /\ file \in {RegularFile(c) : c \in RaceContents}
    /\ bak = Absent
    /\ disk \in DiskStates
    /\ MainIdle
    /\ FmtIdle
    /\ procs \in {{1}, {1, 2}}
    /\ rpc = [p \in 1..2 |-> IF p \in procs THEN "start" ELSE "off"]
    /\ rtasks = [p \in 1..2 |-> <<>>]
    /\ rbuf = [p \in 1..2 |-> <<>>]
    /\ rlog = [finished |-> <<>>, overlap |-> FALSE, prev |-> [p \in 1..2 |-> <<>>]]

\* The operation a racing program performs: its outcomes in memory.
RaceOps(t) ==
    UNION { add_task(t, file, "ok", <<"a">>),
            complete_task(t, file, "ok", 1),
            remove_task(t, file, "ok", 1) }

\* task_tracker = TaskTracker(): the file is read in one piece.
RLoad(p) ==
    /\ rpc[p] = "start"
    /\ \E o \in load_tasks(file, bak, disk) :
        /\ rpc' = [rpc EXCEPT ![p] = IF o.raised = "none" THEN "ready"
                                     ELSE "init_failed"]
        /\ rtasks' = [rtasks EXCEPT ![p] = o.tasks]
        /\ file' = o.file
        /\ bak' = o.bak
    /\ UNCHANGED <<disk, mainVars, fmtVars, procs, rbuf, rlog>>

\* The operation's precondition fails: no mutation, no save.
RReject(p) ==
    /\ rpc[p] = "ready"
    /\ \E o \in RaceOps(rtasks[p]) : o.saves = 0
    /\ rpc' = [rpc EXCEPT ![p] = "rejected"]
    /\ UNCHANGED <<storeVars, mainVars, fmtVars, procs, rtasks, rbuf, rlog>>

\* The operation mutates self.tasks and save_tasks opens the file: the
\* file is truncated, the snapshot is in the file object's buffer.
ROpen(p) ==
    /\ rpc[p] = "ready"
    /\ disk # "readonly"
    /\ \E o \in RaceOps(rtasks[p]) :
        /\ o.saves = 1
        /\ Len(o.tasks) <= MaxTasks
        /\ rtasks' = [rtasks EXCEPT ![p] = o.tasks]
        /\ rbuf' = [rbuf EXCEPT ![p] = Dumps(o.tasks)]
    /\ file' = OpenForWrite(file)
    /\ rpc' = [rpc EXCEPT ![p] = "opened"]
    /\ rlog' = [rlog EXCEPT
                 !.prev[p] = file.content,
                 !.overlap = @ \/ \E q \in procs : rpc[q] = "opened"]
    /\ UNCHANGED <<bak, disk, mainVars, fmtVars, procs>>

\* The operation mutates self.tasks and the open in save_tasks fails: the
\* error is printed, the file is as it was.
ROpenFail(p) ==
    /\ rpc[p] = "ready"
    /\ disk = "readonly"
    /\ \E o \in RaceOps(rtasks[p]) :
        /\ o.saves = 1
        /\ Len(o.tasks) <= MaxTasks
        /\ rtasks' = [rtasks EXCEPT ![p] = o.tasks]
    /\ rpc' = [rpc EXCEPT ![p] = "open_failed"]
    /\ rlog' = [rlog EXCEPT !.prev[p] = file.content]
    /\ UNCHANGED <<storeVars, mainVars, fmtVars, procs, rbuf>>

\* The with block ends: the buffer is written from position 0 and the file
\* is closed.
RWrite(p) ==
    /\ rpc[p] = "opened"
    /\ disk = "ok"
    /\ file' = RegularFile(Overwrite(file.content, rbuf[p]))
    /\ rpc' = [rpc EXCEPT ![p] = "saved"]
    /\ rbuf' = [rbuf EXCEPT ![p] = <<>>]
    /\ rlog' = [rlog EXCEPT !.finished = Append(@, p)]
    /\ UNCHANGED <<bak, disk, mainVars, fmtVars, procs, rtasks>>

\* The write fails part-way: the error is printed by save_tasks.
RWriteFail(p) ==
    /\ rpc[p] = "opened"
    /\ disk = "full"
    /\ \E k \in PartialLengths(rbuf[p]) :
        file' = RegularFile(Overwrite(file.content, SubSeq(rbuf[p], 1, k)))
    /\ rpc' = [rpc EXCEPT ![p] = "write_failed"]
    /\ rbuf' = [rbuf EXCEPT ![p] = <<>>]
    /\ UNCHANGED <<bak, disk, mainVars, fmtVars, procs, rtasks, rlog>>

\* The program is stopped between the open and the write.
RCrash(p) ==
    /\ rpc[p] = "opened"
    /\ rpc' = [rpc EXCEPT ![p] = "crashed"]
    /\ rbuf' = [rbuf EXCEPT ![p] = <<>>]
    /\ UNCHANGED <<storeVars, mainVars, fmtVars, procs, rtasks, rlog>>

RaceNext ==
    \/ \E p \in procs : RLoad(p)
    \/ \E p \in procs : RReject(p)
    \/ \E p \in procs : ROpen(p)
    \/ \E p \in procs : ROpenFail(p)
    \/ \E p \in procs : RWrite(p)
    \/ \E p \in procs : RWriteFail(p)
    \/ \E p \in procs : RCrash(p)

RaceSpec == RaceInit /\ [][RaceNext]_vars

(***************************************************************************)
(* The event formatter ("src/github-user-activity/main.py").  An event is  *)
(* a record of the fields format_event reads: type (MISSING when the key   *)
(* is absent), repo (event["repo"]["name"]), action                        *)
(* (event["payload"]["action"]), issue_number                              *)
(* (event["payload"]["issue"]["number"]) and number                        *)
(* (event["payload"]["number"]).  Text is a sequence of characters.        *)
(***************************************************************************)
MISSING == "<missing>"

LowerLetters == <<"a", "b", "c", "d", "e", "f", "g", "h", "i", "j", "k", "l", "m", "n", "o", "p", "q", "r", "s", "t", "u", "v", "w", "x", "y", "z">>
UpperLetters == <<"A", "B", "C", "D", "E", "F", "G", "H", "I", "J", "K", "L", "M", "N", "O", "P", "Q", "R", "S", "T", "U", "V", "W", "X", "Y", "Z">>
ToUpper(c) ==
    IF \E i \in 1..26 : LowerLetters[i] = c
    THEN UpperLetters[CHOOSE i \in 1..26 : LowerLetters[i] = c]
    ELSE c
ToLower(c) ==
    IF \E i \in 1..26 : UpperLetters[i] = c
    THEN LowerLetters[CHOOSE i \in 1..26 : UpperLetters[i] = c]
    ELSE c

RECURSIVE lower(_)
lower(s) == IF s = <<>> THEN <<>> ELSE <<ToLower(Head(s))>> \o lower(Tail(s))

\* A capitalize that leaves the text as it is.
capitalize_asis(s) == s

\* str.capitalize(): first character upper case, the rest lower case.
capitalize(s) ==
    IF s = <<>> THEN <<>> ELSE <<ToUpper(Head(s))>> \o lower(Tail(s))

PUSHED_TO == <<"P", "u", "s", "h", "e", "d", " ", "t", "o", " ">>
OPENED_ISSUE == <<"O", "p", "e", "n", "e", "d", " ", "i", "s", "s", "u", "e", " ", "#">>
CLOSED_ISSUE == <<"C", "l", "o", "s", "e", "d", " ", "i", "s", "s", "u", "e", " ", "#">>
ISSUE == <<" ", "i", "s", "s", "u", "e", " ", "#">>
COMMENTED_ON_ISSUE == <<"C", "o", "m", "m", "e", "n", "t", "e", "d", " ", "o", "n", " ", "i", "s", "s", "u", "e", " ", "#">>
FORKED == <<"F", "o", "r", "k", "e", "d", " ">>
STARRED == <<"S", "t", "a", "r", "r", "e", "d", " ">>
PULL_REQUEST == <<" ", "p", "u", "l", "l", " ", "r", "e", "q", "u", "e", "s", "t", " ", "#">>
DID_SOMETHING_IN == <<"D", "i", "d", " ", "s", "o", "m", "e", "t", "h", "i", "n", "g", " ", "i", "n", " ">>
IN_REPO == <<" ", "i", "n", " ">>
OPENED == <<"o", "p", "e", "n", "e", "d">>
CLOSED == <<"c", "l", "o", "s", "e", "d">>

format_event(event) ==
    LET event_type == event.type
        repo_name == event.repo
    IN IF event_type = "PushEvent" THEN PUSHED_TO \o repo_name
       ELSE IF event_type = "IssuesEvent" THEN
            LET action == event.action
                issue_number == event.issue_number
            IN IF action = OPENED
               THEN OPENED_ISSUE \o DumpInt(issue_number) \o IN_REPO \o repo_name
               ELSE IF action = CLOSED
               THEN CLOSED_ISSUE \o DumpInt(issue_number) \o IN_REPO \o repo_name
               ELSE capitalize(action) \o ISSUE \o DumpInt(issue_number)
                    \o IN_REPO \o repo_name
       ELSE IF event_type = "IssueCommentEvent"
       THEN COMMENTED_ON_ISSUE \o DumpInt(event.issue_number) \o IN_REPO \o repo_name
       ELSE IF event_type = "ForkEvent" THEN FORKED \o repo_name
       ELSE IF event_type = "WatchEvent" THEN STARRED \o repo_name
       ELSE IF event_type = "PullRequestEvent"
       THEN capitalize(event.action) \o PULL_REQUEST \o DumpInt(event.number)
            \o IN_REPO \o repo_name
       ELSE DID_SOMETHING_IN \o repo_name

\* The events the formatter is run on.
EventTypes ==
    {"PushEvent", "IssuesEvent", "IssueCommentEvent", "ForkEvent", "WatchEvent",
     "PullRequestEvent", "CreateEvent", MISSING}
RepoNames == {<<"o", "/", "r">>, <<"u", "/", "X", "y">>}
Actions == {OPENED, CLOSED, <<"r", "e", "o", "p", "e", "n", "e", "d">>, <<"e", "D", "i", "t", "e", "d">>}
Events ==
    [type : EventTypes, repo : RepoNames, action : Actions,
     issue_number : {7, 12}, number : {305}]

FmtInit ==
    /\ file = Absent /\ bak = Absent /\ disk = "ok"
    /\ MainIdle
    /\ RaceIdle
    /\ ev \in Events
    /\ line = <<>>
    /\ fpc = "fetched"

\* line = format_event(event)
FormatEvent ==
    /\ fpc = "fetched"
    /\ line' = format_event(ev)
    /\ fpc' = "printed"
    /\ UNCHANGED <<storeVars, mainVars, raceVars, ev>>

\* for event in data[:10]: the next event of the feed.
NextEvent ==
    /\ fpc = "printed"
    /\ ev' \in Events
    /\ line' = <<>>
    /\ fpc' = "fetched"
    /\ UNCHANGED <<storeVars, mainVars, raceVars>>

FmtNext ==
    \/ FormatEvent
    \/ NextEvent

FmtSpec == FmtInit /\ [][FmtNext]_vars

(***************************************************************************)
(* Properties.                                                             *)
(***************************************************************************)
IsBlank(s) == \A i \in 1..Len(s) : s[i] \in Whitespace

\* d is s without its leading and trailing whitespace.
IsStrippedOf(d, s) ==
    /\ d # <<>>
    /\ d[1] \notin Whitespace
    /\ d[Len(d)] \notin Whitespace
    /\ \E i \in 0..Len(s) :
        /\ i + Len(d) <= Len(s)
        /\ SubSeq(s, i + 1, i + Len(d)) = d
        /\ IsBlank(SubSeq(s, 1, i))
        /\ IsBlank(SubSeq(s, i + Len(d) + 1, Len(s)))

OutOfRange(i, t) == t = <<>> \/ i < 1 \/ i > Len(t)

\* C1: add_task of a description with a non-whitespace character appends
\* exactly one task, at the last position, not completed, whose description
\* is the input stripped, and leaves every earlier task as it was.
C1_AddAppends ==
    (last.op = "add" /\ ~IsBlank(last.desc)) =>
        /\ Len(tasks) = Len(last.pre.tasks) + 1
        /\ tasks[Len(tasks)].completed = PyBool(FALSE)
        /\ tasks[Len(tasks)].description.t = "str"
        /\ IsStrippedOf(tasks[Len(tasks)].description.s, last.desc)
        /\ \A i \in 1..Len(last.pre.tasks) : tasks[i] = last.pre.tasks[i]

C1_Witness ==
    /\ last.op = "add"
    /\ last.desc = <<" ", "b", "\"", " ">>
    /\ Len(last.pre.tasks) = 1
    /\ Len(tasks) = 2

\* C8: add_task of an empty or all-whitespace description is rejected: the
\* task list and the store file stay as they were and save_tasks is not
\* called.
C8_BlankAddRejected ==
    (last.op = "add" /\ IsBlank(last.desc)) =>
        /\ tasks = last.pre.tasks
        /\ last.saves = 0
        /\ file = last.pre.file
        /\ bak = last.pre.bak

C8_Witness ==
    /\ last.op = "add"
    /\ last.desc = <<" ", "\t">>
    /\ tasks # <<>>
    /\ file.kind = "file"

\* C9: complete_task and remove_task on an empty list or with an index
\* outside 1..len are rejected: no task changes or leaves, save_tasks is not
\* called and nothing is raised.
C9_BadIndexRejected ==
    (last.op \in {"complete", "remove"} /\ OutOfRange(last.idx, last.pre.tasks)) =>
        /\ tasks = last.pre.tasks
        /\ last.saves = 0
        /\ file = last.pre.file
        /\ last.raised = "none"

C9_Witness ==
    /\ last.op = "complete"
    /\ last.idx = 0
    /\ Len(last.pre.tasks) = 2
    /\ last.pre.tasks[2].completed = PyBool(FALSE)

\* C10: complete_task with a valid index sets completed on that task and
\* changes nothing else, and a second call with the same index yields the
\* same list.
C10_CompleteSetsOnlyFlag ==
    (last.op = "complete" /\ ~OutOfRange(last.idx, last.pre.tasks)) =>
        /\ Len(tasks) = Len(last.pre.tasks)
        /\ tasks[last.idx].completed = PyBool(TRUE)
        /\ tasks[last.idx].description = last.pre.tasks[last.idx].description
        /\ \A j \in 1..Len(tasks) : j # last.idx => tasks[j] = last.pre.tasks[j]
        /\ \A o \in complete_task(tasks, file, disk, last.idx) : o.tasks = tasks

C10_Witness ==
    /\ last.op = "complete"
    /\ last.idx = 1
    /\ Len(tasks) = 2
    /\ last.pre.tasks[1].completed = PyBool(TRUE)
    /\ last.pre.tasks[2].completed = PyBool(FALSE)

\* C2: a list saved in full by save_tasks and then loaded by the next
\* program is the same list: same length, same description and completed at
\* each position, and the load makes no backup and resets nothing.
C2_RoundTrip ==
    (last.op = "init" /\ durable.valid) =>
        /\ pc = "ready"
        /\ Len(tasks) = Len(durable.tasks)
        /\ \A i \in 1..Len(tasks) :
            /\ tasks[i].description = durable.tasks[i].description
            /\ tasks[i].completed = durable.tasks[i].completed
        /\ bak = last.pre.bak
        /\ file = last.pre.file
        /\ last.msgs = <<>>

C2_Witness ==
    /\ last.op = "init"
    /\ durable.valid
    /\ Len(tasks) = 2
    /\ tasks[1].description = PyStr(<<"b", "\"">>)
    /\ tasks[1].completed = PyBool(TRUE)
    /\ tasks[2].description = PyStr(<<"a">>)
    /\ tasks[2].completed = PyBool(FALSE)
    /\ last.pre.file.content = Dumps(tasks)

\* The content is not valid JSON text.
Malformed(content) == Loads(content).err # "none"
\* The content is valid JSON whose top level is not an array.
NotAnArray(content) == Loads(content).err = "none" /\ Loads(content).v.t # "list"

\* C3: loading a regular store file that is malformed, or valid JSON but not
\* an array, ends with an empty list, a backup equal to the original bytes,
\* the store file untouched, and nothing raised out of the constructor
\* (stated for a disk that accepts the backup copy).
C3_BadFileBackedUpAndReset ==
    (/\ last.op = "init"
     /\ last.pre.file.kind = "file"
     /\ disk = "ok"
     /\ Malformed(last.pre.file.content) \/ NotAnArray(last.pre.file.content)) =>
        /\ last.raised = "none"
        /\ pc = "ready"
        /\ tasks = <<>>
        /\ bak = RegularFile(last.pre.file.content)
        /\ file = last.pre.file

\* C4: constructing the store when the store file is absent writes an
\* empty JSON array to it, starts with an empty list and reports no error
\* (stated for a disk that accepts the write).
C4_AbsentFileInitialised ==
    (last.op = "init" /\ last.pre.file.kind = "absent" /\ disk = "ok") =>
        /\ pc = "ready"
        /\ tasks = <<>>
        /\ file.kind = "file"
        /\ Loads(file.content) = [err |-> "none", v |-> PyList(<<>>)]
        /\ last.msgs = <<>>

\* An element of a stored array that does not decode as a task: not an
\* object, no description, or a field of the wrong type.
NotATask(e) ==
    \/ e.t # "dict"
    \/ ~HasKey(e, DESCRIPTION)
    \/ GetItem(e, DESCRIPTION).t # "str"
    \/ HasKey(e, COMPLETED) /\ GetItem(e, COMPLETED).t # "bool"

HasBadElement(content) ==
    /\ Loads(content).err = "none"
    /\ Loads(content).v.t = "list"
    /\ \E i \in 1..Len(Loads(content).v.items) : NotATask(Loads(content).v.items[i])

\* C7: loading an array with an element that does not decode as a task is
\* treated as corruption: a warning, a backup, an empty list (stated for a
\* disk that accepts the backup copy).
C7_BadElementIsCorruption ==
    (/\ last.op = "init"
     /\ last.pre.file.kind = "file"
     /\ disk = "ok"
     /\ HasBadElement(last.pre.file.content)) =>
        /\ tasks = <<>>
        /\ last.msgs = <<"Error loading tasks file", "Created backup">>
        /\ bak = RegularFile(last.pre.file.content)

IsPrefix(a, b) == Len(a) <= Len(b) /\ SubSeq(b, 1, Len(a)) = a

InSave(p) == rpc[p] \in {"opened", "saved", "write_failed", "crashed"}

\* C5 as stated: during and after a save (no other program running) the
\* store file holds the complete previous snapshot or the complete new one.
C5_SaveIsAtomic ==
    \A p \in procs :
        (procs = {p} /\ InSave(p)) =>
            file.content \in {rlog.prev[p], Dumps(rtasks[p])}

\* C5, amended: the save is a full overwrite that is not atomic.  With no
\* other program running, the store file is empty from the open until the
\* write, stays empty if the program stops there, holds a proper prefix of
\* the new snapshot if the write fails, the complete new snapshot once the
\* save has finished, and is unchanged if the open fails.
C5_SaveTruncatesThenWrites ==
    \A p \in procs :
        procs = {p} =>
            /\ rpc[p] \in {"opened", "crashed"} => file.content = <<>>
            /\ rpc[p] = "write_failed" =>
                /\ IsPrefix(file.content, Dumps(rtasks[p]))
                /\ file.content # Dumps(rtasks[p])
            /\ rpc[p] = "saved" => file.content = Dumps(rtasks[p])
            /\ rpc[p] = "open_failed" => file.content = rlog.prev[p]

C5_Witness ==
    /\ procs = {1}
    /\ rpc[1] = "write_failed"
    /\ file.content # <<>>
    /\ rlog.prev[1] = Dumps(<<TaskA>>)

BothSaved == procs = {1, 2} /\ rpc[1] = "saved" /\ rpc[2] = "saved"

\* C6 as stated: when two programs race, the store file ends as exactly the
\* snapshot of the program whose save finished last.
C6_LastWriteWins ==
    BothSaved => file.content = Dumps(rtasks[rlog.finished[2]])

\* C6, amended: the last full write wins only if the two saves do not
\* overlap (one is opened after the other has been written).  If they
\* overlap, the file ends as the snapshot written last followed by the part
\* of the snapshot written first that extends beyond it.
C6_LastWriteWinsUnlessOverlap ==
    BothSaved =>
        LET first == Dumps(rtasks[rlog.finished[1]])
            second == Dumps(rtasks[rlog.finished[2]])
        IN IF rlog.overlap
           THEN file.content = second \o SubSeq(first, Len(second) + 1, Len(first))
           ELSE file.content = second

C6_Witness ==
    /\ BothSaved
    /\ ~rlog.overlap
    /\ rlog.finished = <<2, 1>>
    /\ Len(rtasks[1]) = 0
    /\ Len(rtasks[2]) = 2

\* C11: remove_task with a valid index shortens the list by exactly one,
\* leaves the tasks before the index in place and moves every task after it
\* one position down, unchanged; removing the only task leaves no task.
C11_RemoveShifts ==
    (last.op = "remove" /\ ~OutOfRange(last.idx, last.pre.tasks)) =>
        /\ Len(tasks) = Len(last.pre.tasks) - 1
        /\ \A j \in 1..Len(last.pre.tasks) :
            /\ j < last.idx => tasks[j] = last.pre.tasks[j]
            /\ j > last.idx => tasks[j - 1] = last.pre.tasks[j]
        /\ Len(last.pre.tasks) = 1 => tasks = <<>>

C11_Witness ==
    /\ last.op = "remove"
    /\ last.idx = 1
    /\ Len(last.pre.tasks) = 2
    /\ last.pre.tasks[1] # last.pre.tasks[2]
    /\ tasks = <<last.pre.tasks[2]>>

Mutating == {"add", "complete", "remove"}

\* The operation passed its precondition.
Accepted ==
    \/ last.op = "add" /\ ~IsBlank(last.desc)
    \/ last.op \in {"complete", "remove"} /\ ~OutOfRange(last.idx, last.pre.tasks)

\* The task list holds the mutation the last operation asked for.
MutationInMemory ==
    /\ last.op = "add" =>
        /\ Len(tasks) = Len(last.pre.tasks) + 1
        /\ \A i \in 1..Len(last.pre.tasks) : tasks[i] = last.pre.tasks[i]
    /\ last.op = "complete" =>
        /\ Len(tasks) = Len(last.pre.tasks)
        /\ tasks[last.idx].completed = PyBool(TRUE)
    /\ last.op = "remove" => Len(tasks) = Len(last.pre.tasks) - 1

\* C12: when save_tasks cannot open or write the store file during add,
\* complete or remove, the failure is printed and not raised, the program
\* goes on, the task list keeps the mutation, and the store file does not
\* receive it: the file is as before the operation (failed open) or holds
\* only a proper prefix of the new snapshot (failed write).
C12_SaveFailureReportedNotRaised ==
    (last.op \in Mutating /\ Accepted /\ last.wrote # "full") =>
        /\ last.raised = "none"
        /\ pc = "ready"
        /\ last.saves = 1
        /\ \E k \in 1..Len(last.msgs) : last.msgs[k] = "Error saving tasks"
        /\ MutationInMemory
        /\ \/ file = last.pre.file
           \/ /\ file.kind = "file"
              /\ IsPrefix(file.content, Dumps(tasks))
              /\ file.content # Dumps(tasks)

C12_Witness ==
    /\ last.op = "add"
    /\ last.desc = <<"a">>
    /\ disk = "full"
    /\ Len(tasks) = 2
    /\ last.pre.file = RegularFile(Dumps(last.pre.tasks))
    /\ file.content # <<>>
    /\ Malformed(file.content)

\* The flag says "not completed": False, or for a flag that is not a
\* Boolean, a value Python's "not" takes for false.
FlagIsFalse(v) == IF v.t = "bool" THEN v = PyBool(FALSE) ELSE ~Truthy(v)

\* C13: in_progress_tasks produces exactly the tasks whose completed is
\* false, in list order, each with its position in the full list.
C13_InProgressKeepsIndices ==
    last.op = "in_progress" =>
        /\ \A k \in 1..Len(last.shown) :
            /\ last.shown[k].index \in 1..Len(tasks)
            /\ last.shown[k].task = tasks[last.shown[k].index]
            /\ FlagIsFalse(last.shown[k].task.completed)
        /\ \A k \in 1..(Len(last.shown) - 1) :
            last.shown[k].index < last.shown[k + 1].index
        /\ \A i \in 1..Len(tasks) :
            FlagIsFalse(tasks[i].completed) =>
                \E k \in 1..Len(last.shown) : last.shown[k].index = i

C13_Witness ==
    /\ last.op = "in_progress"
    /\ Len(tasks) = 3
    /\ tasks[1].completed = PyBool(FALSE)
    /\ tasks[2].completed = PyBool(TRUE)
    /\ tasks[3].completed = PyBool(FALSE)
    /\ Len(last.shown) = 2
    /\ last.shown[1] = [index |-> 1, task |-> tasks[1]]
    /\ last.shown[2] = [index |-> 3, task |-> tasks[3]]

\* The content is a JSON array of objects that all have a description.
ArrayOfDescribed(content) ==
    /\ Loads(content).err = "none"
    /\ Loads(content).v.t = "list"
    /\ \A i \in 1..Len(Loads(content).v.items) :
        /\ Loads(content).v.items[i].t = "dict"
        /\ HasKey(Loads(content).v.items[i], DESCRIPTION)

\* C14: loading a JSON array of objects tolerates a missing completed field:
\* every element is loaded, in file order, an element without completed as
\* a task with completed = false, and no backup-and-reset takes place.
C14_MissingCompletedIsFalse ==
    (/\ last.op = "init"
     /\ last.pre.file.kind = "file"
     /\ ArrayOfDescribed(last.pre.file.content)) =>
        LET items == Loads(last.pre.file.content).v.items
        IN /\ pc = "ready"
           /\ Len(tasks) = Len(items)
           /\ \A i \in 1..Len(items) :
                /\ tasks[i].description = GetItem(items[i], DESCRIPTION)
                /\ ~HasKey(items[i], COMPLETED) => tasks[i].completed = PyBool(FALSE)
                /\ HasKey(items[i], COMPLETED) =>
                    tasks[i].completed = GetItem(items[i], COMPLETED)
           /\ bak = last.pre.bak
           /\ file = last.pre.file
           /\ last.msgs = <<>>

C14_Witness ==
    /\ last.op = "init"
    /\ last.pre.file.kind = "file"
    /\ Len(Loads(last.pre.file.content).v.items) = 2
    /\ ~HasKey(Loads(last.pre.file.content).v.items[2], COMPLETED)
    /\ tasks = <<TaskB, TaskA>>

\* The action with its first letter in upper case and the rest in lower.
Capitalized(a) ==
    [i \in 1..Len(a) |-> IF i = 1 THEN ToUpper(a[i]) ELSE ToLower(a[i])]

\* C15: format_event maps an event to one line by its type: Push ->
\* "Pushed to {repo}"; Issues -> "Opened|Closed|<Action capitalized> issue
\* #{n} in {repo}"; IssueComment -> "Commented on issue #{n} in {repo}";
\* Fork -> "Forked {repo}"; Watch -> "Starred {repo}"; PullRequest ->
\* "{Action} pull request #{n} in {repo}"; any other or missing type ->
\* "Did something in {repo}".
C15_EventLine ==
    fpc = "printed" =>
        LET n == DumpInt(ev.issue_number)
            tail == IN_REPO \o ev.repo
        IN /\ ev.type = "PushEvent" => line = PUSHED_TO \o ev.repo
           /\ ev.type = "IssuesEvent" =>
                line = Capitalized(ev.action) \o ISSUE \o n \o tail
           /\ ev.type = "IssueCommentEvent" =>
                line = COMMENTED_ON_ISSUE \o n \o tail
           /\ ev.type = "ForkEvent" => line = FORKED \o ev.repo
           /\ ev.type = "WatchEvent" => line = STARRED \o ev.repo
           /\ ev.type = "PullRequestEvent" =>
                line = Capitalized(ev.action) \o PULL_REQUEST
                       \o DumpInt(ev.number) \o tail
           /\ ev.type \notin {"PushEvent", "IssuesEvent", "IssueCommentEvent",
                              "ForkEvent", "WatchEvent", "PullRequestEvent"} =>
                line = DID_SOMETHING_IN \o ev.repo

C15_Witness ==
    /\ fpc = "printed"
    /\ ev.type = "IssuesEvent"
    /\ ev.action = <<"e", "D", "i", "t", "e", "d">>
    /\ ev.issue_number = 12
    /\ line = <<"E", "d", "i", "t", "e", "d", " ", "i", "s", "s", "u", "e", " ",
               "#", "1", "2", " ", "i", "n", " ", "o", "/", "r">>

\* The store file is a JSON array that load_tasks reads as the list t.
DecodesTo(f, t) ==
    /\ f.kind = "file"
    /\ Loads(f.content).err = "none"
    /\ Loads(f.content).v.t = "list"
    /\ DecodeAll(Loads(f.content).v) = [err |-> "none", tasks |-> t]

\* C16: an accepted add_task, complete_task or remove_task calls save_tasks
\* exactly once, after the mutation: when the save succeeds the store file
\* holds the snapshot of the task list as the operation leaves it and
\* decodes to exactly that list, and it still decodes to the list last saved
\* when the program has exited.
C16_SavedOnceAfterMutation ==
    /\ (last.op \in Mutating /\ Accepted) =>
        /\ last.saves = 1
        /\ MutationInMemory
        /\ last.wrote = "full" =>
            /\ file = RegularFile(Dumps(tasks))
            /\ DecodesTo(file, tasks)
            /\ durable = [valid |-> TRUE, tasks |-> tasks]
    /\ (last.op = "exit" /\ durable.valid) => DecodesTo(file, durable.tasks)

C16_Witness ==
    /\ last.op = "remove"
    /\ last.idx = 1
    /\ last.wrote = "full"
    /\ Len(last.pre.tasks) = 2
    /\ last.pre.file.kind = "file"
    /\ last.pre.file.content = Dumps(last.pre.tasks)
    /\ file # last.pre.file
    /\ DecodesTo(file, <<last.pre.tasks[2]>>)

Operations == {"add", "complete", "remove", "list", "in_progress"}

\* The position the task now at position i had before the last operation.
Origin(i) ==
    IF last.op = "remove" /\ ~OutOfRange(last.idx, last.pre.tasks) /\ i >= last.idx
    THEN i + 1
    ELSE i

\* C17: no operation changes the description of a task that exists, and the
\* completed flag changes only from false to true: a flag that changes
\* becomes True, and a task that reads as completed never reads as not
\* completed afterwards.  Only remove_task takes a task away.
C17_DescriptionFixedFlagMonotone ==
    last.op \in Operations =>
        /\ \A i \in 1..Len(tasks) :
            Origin(i) <= Len(last.pre.tasks) =>
                LET old == last.pre.tasks[Origin(i)]
                IN /\ tasks[i].description = old.description
                   /\ tasks[i].completed # old.completed =>
                        /\ tasks[i].completed = PyBool(TRUE)
                        /\ last.op = "complete"
                        /\ i = last.idx
                   /\ Truthy(old.completed) => Truthy(tasks[i].completed)
        /\ last.op # "remove" => Len(tasks) >= Len(last.pre.tasks)
        /\ last.op = "remove" => Len(tasks) >= Len(last.pre.tasks) - 1

C17_Witness ==
    /\ last.op = "complete"
    /\ last.idx = 2
    /\ Len(tasks) = 2
    /\ last.pre.tasks[1].completed = PyBool(TRUE)
    /\ last.pre.tasks[2].completed = PyBool(FALSE)
    /\ tasks[1] = last.pre.tasks[1]
    /\ tasks[2].completed = PyBool(TRUE)
    /\ tasks[2].description = last.pre.tasks[2].description

\* C18: in every state of a constructed store, right after loading
\* included, each task of the list has a description that is text, is not
\* empty and has no leading or trailing whitespace.
C18_DescriptionsNonBlankStripped ==
    pc = "ready" =>
        \A i \in 1..Len(tasks) :
            /\ tasks[i].description.t = "str"
            /\ tasks[i].description.s # <<>>
            /\ strip(tasks[i].description.s) = tasks[i].description.s

\* C19: list_tasks and in_progress_tasks save nothing and change nothing:
\* after either the task list, the store file and the backup file are what
\* they were before the call.
C19_ReadOnlyOperations ==
    last.op \in {"list", "in_progress"} =>
        /\ last.saves = 0
        /\ last.wrote = "none"
        /\ last.raised = "none"
        /\ tasks = last.pre.tasks
        /\ file = last.pre.file
        /\ bak = last.pre.bak

C19_Witness ==
    /\ last.op = "list"
    /\ Len(tasks) = 2
    /\ Len(last.shown) = 2
    /\ disk = "ok"
    /\ file.kind = "file"
    /\ file.content # Dumps(tasks)
    /\ DecodesTo(file, tasks)

LoadComplaints ==
    {"Error loading tasks file", "Warning: Invalid format in tasks file"}

\* C20: starting without a store file, with every write succeeding and
\* nothing else touching the files, no construction of the store finds its
\* file corrupt or ill-formed, and no backup file comes to exist.
C20_OwnOutputNeverCorrupt ==
    /\ bak = Absent
    /\ last.op = "init" =>
        \A k \in 1..Len(last.msgs) : last.msgs[k] \notin LoadComplaints

====
